---- MODULE Spec2Model ----
(***************************************************************************)
(* A model of the human-in-the-loop command agent (cloud-assist):          *)
(*   - src/agent/src/utils.py    clean_command_output, execute_shell_command, *)
(*                               handle_user_interrupt                      *)
(*   - src/agent/src/prompts.py  the interrupt payloads                     *)
(*   - src/agent/src/graph.py    the workflow nodes, the graph, the CLI loop *)
(*   - src/agent/src/server.py   the WebSocket server (AgentServer)         *)
(* Texts that the code inspects character by character (generator outputs,  *)
(* commands) are sequences of characters.              Texts the code only   *)
(* tests for emptiness (stdout, stderr, error messages) are TLA+ strings.   *)
(***************************************************************************)
EXTENDS Integers, Sequences, FiniteSets, TLC

VARIABLES
    \* ---- the fence-stripping function applied to one text
    text,            \* the text given to clean_command_output
    cleaned,         \* clean_command_output(text)
    cleanedTwice,    \* clean_command_output(cleaned)
    cleanPc,         \* "input" | "once" | "twice" | "off"
    \* ---- the checkpointer shared by all threads of one process (MemorySaver)
    checkpoints,     \* thread_id -> [values, next, interrupt]
    hist,            \* thread_id -> history of the session running on that thread
    \* ---- AgentServer
    conn,            \* client_id -> "new" | "open" | "closed"
    active_sessions, \* client_id -> [config, waiting_for_response, interrupt_type]
    nextUuid,        \* the next value uuid4() returns
    lastOp,          \* client_id -> the last message handled for it and the reply
    \* ---- the CLI loop of graph.py main()
    cliPc,           \* "request" | "choice" | "quit" | "off"
    cliConfig,       \* the thread_id of the current request
    cliResult,       \* the value of result in main(): the last invoke's return
    cliLog,          \* what the loop last printed
    user_response,   \* handle_user_interrupt: the node asking and the choice read
    \* ---- the connection loops of handle_websocket on the event loop
    arrived,         \* client_id -> number of messages the websocket received
    inbox,           \* client_id -> the messages received and not yet handled
    handler,         \* client_id -> [pc: "idle" | "invoking" | "sending", message]
    inflight,        \* client_id -> calls of agent_graph.invoke not yet returned
    running          \* the client whose handler blocks the event loop in invoke

vars == <<text, cleaned, cleanedTwice, cleanPc, checkpoints, hist, conn,
          active_sessions, nextUuid, lastOp, cliPc, cliConfig, cliResult, cliLog,
          user_response, arrived, inbox, handler, inflight, running>>

cleanVars  == <<text, cleaned, cleanedTwice, cleanPc>>
serverVars == <<conn, active_sessions, nextUuid, lastOp>>
cliVars    == <<cliPc, cliConfig, cliResult, cliLog, user_response>>
loopVars   == <<arrived, inbox, handler, inflight, running>>

(***************************************************************************)
(* Bounds of the model.                                                    *)
(***************************************************************************)
\* longest text given to clean_command_output in SpecClean
MaxLen == 7
\* number of sessions the server starts in one behaviour
MaxSessions == 2
\* number of messages a connection receives in SpecLoop
MaxMessages == 3

(***************************************************************************)
(* Python string operations used by clean_command_output.                  *)
(***************************************************************************)
\* the characters of a text: "bt" is a backtick, "nl" a line feed, "sp" a space
\* and "a" any other character
Alphabet == {"bt", "nl", "sp", "a"}

\* the fence marker: three backticks
FENCE == <<"bt", "bt", "bt">>

Texts == UNION {[1..n -> Alphabet] : n \in 0..MaxLen}

\* str.startswith
startswith(s, p) == Len(s) >= Len(p) /\ SubSeq(s, 1, Len(p)) = p

\* str.endswith
endswith(s, p) == Len(s) >= Len(p) /\ SubSeq(s, Len(s) - Len(p) + 1, Len(s)) = p

\* characters str.strip() removes
IsSpace(ch) == ch \in {"sp", "nl"}

\* str.strip()
strip(s) ==
    LET keep == {i \in 1..Len(s) : ~IsSpace(s[i])}
        lo == CHOOSE i \in keep : \A j \in keep : i <= j
        hi == CHOOSE i \in keep : \A j \in keep : j <= i
    IN  IF keep = {} THEN <<>> ELSE SubSeq(s, lo, hi)

\* str.split on the line feed: the list of lines, in order
RECURSIVE split(_)
split(s) ==
    LET nl == {i \in 1..Len(s) : s[i] = "nl"}
        first == CHOOSE i \in nl : \A j \in nl : i <= j
    IN  IF nl = {} THEN <<s>>
        ELSE <<SubSeq(s, 1, first - 1)>> \o split(SubSeq(s, first + 1, Len(s)))

\* utils.clean_command_output
clean_command_output(command) ==
    LET c1 == IF startswith(command, FENCE)
              THEN LET lines == split(command)
                   IN  IF Len(lines) > 1 THEN lines[2] ELSE command
              ELSE command
        c2 == IF endswith(c1, FENCE)
              THEN strip(SubSeq(c1, 1, Len(c1) - 3))
              ELSE c1
    IN  strip(c2)

(***************************************************************************)
(* The collaborators: what the text generator and subprocess.run can do.   *)
(***************************************************************************)
\* llm.invoke raising (no key, network failure, ...)
Raise == <<"GenerationError">>

\* response.content of the generator: an empty response, a command in a fenced
\* block, fence markers only
LlmResponses ==
    { <<>>,
      <<"bt", "bt", "bt", "nl", "a", "nl", "bt", "bt", "bt">>,
      <<"bt", "bt", "bt">> }

LlmOutcomes == LlmResponses \cup {Raise}

\* the generator is not called
NoResponse == <<"none">>

\* subprocess.run: the process exits, the timeout elapses, or run raises
RunnerOutcomes ==
    { [kind |-> "exit", returncode |-> 0, stdout |-> "out", stderr |-> ""],
      [kind |-> "exit", returncode |-> 0, stdout |-> "out", stderr |-> "err"],
      [kind |-> "exit", returncode |-> 1, stdout |-> "out", stderr |-> "err"],
      [kind |-> "exit", returncode |-> 1, stdout |-> "", stderr |-> ""],
      [kind |-> "timeout", returncode |-> 0, stdout |-> "", stderr |-> ""],
      [kind |-> "exception", returncode |-> 0, stdout |-> "", stderr |-> ""] }

NoOutcome == [kind |-> "none", returncode |-> 0, stdout |-> "", stderr |-> ""]

\* execute_shell_command reporting a timeout without an error text
execute_shell_command_silent_timeout(command, outcome) ==
    IF outcome.kind = "exit"
    THEN [command_output |-> outcome.stdout,
          command_error |-> IF outcome.returncode = 0 THEN "" ELSE outcome.stderr,
          execution_approved |-> TRUE]
    ELSE IF outcome.kind = "timeout"
    THEN [command_output |-> "", command_error |-> "", execution_approved |-> TRUE]
    ELSE [command_output |-> "",
          command_error |-> "Error executing command",
          execution_approved |-> TRUE]

\* execute_shell_command keeping stderr whatever the exit code
execute_shell_command_keeps_stderr(command, outcome) ==
    IF outcome.kind = "exit"
    THEN [command_output |-> outcome.stdout,
          command_error |-> outcome.stderr,
          execution_approved |-> TRUE]
    ELSE IF outcome.kind = "timeout"
    THEN [command_output |-> "",
          command_error |-> "Command timed out after 30 seconds",
          execution_approved |-> TRUE]
    ELSE [command_output |-> "",
          command_error |-> "Error executing command",
          execution_approved |-> TRUE]

\* utils.execute_shell_command: the state update it returns
execute_shell_command(command, outcome) ==
    IF outcome.kind = "exit"
    THEN IF outcome.returncode = 0
         THEN [command_output |-> outcome.stdout,
               command_error |-> "",
               execution_approved |-> TRUE]
         ELSE [command_output |-> outcome.stdout,
               command_error |-> outcome.stderr,
               execution_approved |-> TRUE]
    ELSE IF outcome.kind = "timeout"
    THEN [command_output |-> "",
          command_error |-> "Command timed out after 30 seconds",
          execution_approved |-> TRUE]
    ELSE [command_output |-> "",
          command_error |-> "Error executing command",
          execution_approved |-> TRUE]

(***************************************************************************)
(* prompts.py: the payloads of the two interrupts.                         *)
(***************************************************************************)
get_approval_request_data(generated_command, user_prompt, retry_count) ==
    [question |-> "Do you want to execute this command?",
     command |-> generated_command,
     user_prompt |-> user_prompt,
     retry_count |-> retry_count,
     options |-> {"approve", "reject", "cancel"}]

\* get_retry_request_data with the error left out of the payload
get_retry_request_data_no_error(original_command, error, output, retry_count) ==
    [question |-> "Command failed. Do you want me to try a different approach?",
     original_command |-> original_command,
     output |-> output,
     retry_count |-> retry_count,
     options |-> {"retry", "stop"}]

get_retry_request_data(original_command, error, output, retry_count) ==
    [question |-> "Command failed. Do you want me to try a different approach?",
     original_command |-> original_command,
     error |-> error,
     output |-> output,
     retry_count |-> retry_count,
     options |-> {"retry", "stop"}]

\* no interrupt: result.get("__interrupt__") is empty
NoInterrupt == [question |-> ""]

\* result.get("__interrupt__") is not empty
IsInterrupt(payload) == payload.question # ""

\* dict.get(key, default) on an interrupt payload
Get(d, key, default) == IF key \in DOMAIN d THEN d[key] ELSE default

(***************************************************************************)
(* graph.py: the nodes.  A node returns a state update, a Command (goto    *)
(* and update) or, when it calls interrupt() and no resume value is there, *)
(* the payload of the interrupt.  The field "messages" of the state, which *)
(* no node reads, is left out.                                             *)
(***************************************************************************)
END == "__end__"

\* the first execution of a node: interrupt() finds no resume value
NoResume == "<none>"

NoUpdate == [x \in {} |-> 0]

\* the state given to the first invoke of a request (graph.py and server.py)
initial_state(user_prompt) ==
    [user_prompt |-> user_prompt,
     generated_command |-> <<>>,
     command_output |-> "",
     command_error |-> "",
     execution_approved |-> FALSE,
     retry_count |-> 0]

\* the channels of the graph take the last value written to them
ApplyUpdate(state, update) ==
    [k \in DOMAIN state |-> IF k \in DOMAIN update THEN update[k] ELSE state[k]]

\* generate_command_node starting the retries over
generate_command_node_resets_count(state, response) ==
    [generated_command |-> clean_command_output(response),
     retry_count |-> 0]

generate_command_node(state, response) ==
    [generated_command |-> clean_command_output(response),
     retry_count |-> state.retry_count]

\* human_approval_node with the else branch taken as an approval
human_approval_node_else_runs(state, human_response) ==
    IF human_response = NoResume
    THEN [interrupt |-> get_approval_request_data(state.generated_command,
                            state.user_prompt, state.retry_count),
          goto |-> "", update |-> NoUpdate]
    ELSE IF human_response = "reject"
    THEN [interrupt |-> NoInterrupt, goto |-> "generate_command",
          update |-> [execution_approved |-> FALSE]]
    ELSE [interrupt |-> NoInterrupt, goto |-> "execute_command",
          update |-> [execution_approved |-> TRUE]]

\* human_approval_node writing to the state before it interrupts
human_approval_node_writes_first(state, human_response) ==
    IF human_response = NoResume
    THEN [interrupt |-> get_approval_request_data(state.generated_command,
                            state.user_prompt, state.retry_count),
          goto |-> "", update |-> [execution_approved |-> FALSE]]
    ELSE IF human_response = "approve"
    THEN [interrupt |-> NoInterrupt, goto |-> "execute_command",
          update |-> [execution_approved |-> TRUE]]
    ELSE IF human_response = "reject"
    THEN [interrupt |-> NoInterrupt, goto |-> "generate_command",
          update |-> [execution_approved |-> FALSE]]
    ELSE [interrupt |-> NoInterrupt, goto |-> END, update |-> NoUpdate]

human_approval_node(state, human_response) ==
    IF human_response = NoResume
    THEN [interrupt |-> get_approval_request_data(state.generated_command,
                            state.user_prompt, state.retry_count),
          goto |-> "", update |-> NoUpdate]
    ELSE IF human_response = "approve"
    THEN [interrupt |-> NoInterrupt, goto |-> "execute_command",
          update |-> [execution_approved |-> TRUE]]
    ELSE IF human_response = "reject"
    THEN [interrupt |-> NoInterrupt, goto |-> "generate_command",
          update |-> [execution_approved |-> FALSE]]
    ELSE [interrupt |-> NoInterrupt, goto |-> END, update |-> NoUpdate]

execute_command_node(state, outcome) ==
    execute_shell_command(state.generated_command, outcome)

\* check_result_node offering a retry while retry_count <= 3
check_result_node_one_more(state, human_response) ==
    IF state.command_error # "" /\ state.retry_count <= 3
    THEN IF human_response = NoResume
         THEN [interrupt |-> get_retry_request_data(state.generated_command,
                                 state.command_error, state.command_output,
                                 state.retry_count),
               goto |-> "", update |-> NoUpdate]
         ELSE IF human_response = "retry"
         THEN [interrupt |-> NoInterrupt, goto |-> "retry_command",
               update |-> [retry_count |-> state.retry_count + 1]]
         ELSE [interrupt |-> NoInterrupt, goto |-> END, update |-> NoUpdate]
    ELSE [interrupt |-> NoInterrupt, goto |-> END, update |-> NoUpdate]

\* check_result_node accepting a retry without counting it
check_result_node_no_increment(state, human_response) ==
    IF state.command_error # "" /\ state.retry_count < 3
    THEN IF human_response = NoResume
         THEN [interrupt |-> get_retry_request_data(state.generated_command,
                                 state.command_error, state.command_output,
                                 state.retry_count),
               goto |-> "", update |-> NoUpdate]
         ELSE IF human_response = "retry"
         THEN [interrupt |-> NoInterrupt, goto |-> "retry_command",
               update |-> NoUpdate]
         ELSE [interrupt |-> NoInterrupt, goto |-> END, update |-> NoUpdate]
    ELSE [interrupt |-> NoInterrupt, goto |-> END, update |-> NoUpdate]

\* check_result_node ending on stop only, any other response being a retry
check_result_node_stop_only(state, human_response) ==
    IF state.command_error # "" /\ state.retry_count < 3
    THEN IF human_response = NoResume
         THEN [interrupt |-> get_retry_request_data(state.generated_command,
                                 state.command_error, state.command_output,
                                 state.retry_count),
               goto |-> "", update |-> NoUpdate]
         ELSE IF human_response = "stop"
         THEN [interrupt |-> NoInterrupt, goto |-> END, update |-> NoUpdate]
         ELSE [interrupt |-> NoInterrupt, goto |-> "retry_command",
               update |-> [retry_count |-> state.retry_count + 1]]
    ELSE [interrupt |-> NoInterrupt, goto |-> END, update |-> NoUpdate]

check_result_node(state, human_response) ==
    IF state.command_error # "" /\ state.retry_count < 3
    THEN IF human_response = NoResume
         THEN [interrupt |-> get_retry_request_data(state.generated_command,
                                 state.command_error, state.command_output,
                                 state.retry_count),
               goto |-> "", update |-> NoUpdate]
         ELSE IF human_response = "retry"
         THEN [interrupt |-> NoInterrupt, goto |-> "retry_command",
               update |-> [retry_count |-> state.retry_count + 1]]
         ELSE [interrupt |-> NoInterrupt, goto |-> END, update |-> NoUpdate]
    ELSE [interrupt |-> NoInterrupt, goto |-> END, update |-> NoUpdate]

retry_command_node(state, response) ==
    [generated_command |-> clean_command_output(response)]

\* the static edges with retry_command followed by execute_command
Edge_retry_executes(node) ==
    CASE node = "generate_command" -> "human_approval"
      [] node = "execute_command" -> "check_result"
      [] node = "retry_command" -> "execute_command"

\* create_agent_graph: the static edges
Edge(node) ==
    CASE node = "generate_command" -> "human_approval"
      [] node = "execute_command" -> "check_result"
      [] node = "retry_command" -> "human_approval"

(***************************************************************************)
(* The history of a session, kept beside the program's state to state the  *)
(* properties: how many times the command runner ran, how many retry       *)
(* decisions were accepted, which node ended the workflow, and what the    *)
(* last invoke of the graph ran.                                           *)
(***************************************************************************)
\* the node run before the current one in this invoke, the decision it
\* resumed with and the command its interrupt showed
NoVia == [node |-> "", decision |-> NoResume, shown |-> <<>>]

\* the invocation of the command runner during the last invoke, if any
NoExec == [executed |-> FALSE, command |-> <<>>, via |-> NoVia,
           outcome |-> NoOutcome, retry_count |-> 0]

HistInit ==
    [execs |-> 0,            \* invocations of the command runner
     retries |-> 0,          \* accepted "retry" decisions
     ended |-> "",           \* the node that went to END
     lastRun |-> NoExec]     \* the command runner in the last invoke

Halt(state, node, interrupt, raised, h) ==
    [values |-> state, next |-> node, interrupt |-> interrupt, raised |-> raised,
     hist |-> h]

(***************************************************************************)
(* The compiled graph run by invoke: nodes run one after the other from    *)
(* node, each followed by its static edge or by the goto of its Command,   *)
(* until a node interrupts (the run stops and node is the next one), a     *)
(* node raises (the checkpoint of the last completed step stays, the node  *)
(* is the next one) or END is reached.  The resume value of                *)
(* Command(resume=...) is seen by the first node only; pending is the      *)
(* payload of the interrupt the caller answers.                            *)
(***************************************************************************)
RECURSIVE RunGraph(_, _, _, _, _, _, _, _)
RunGraph(state, node, resume, pending, response, outcome, via, h) ==
    CASE node = END -> Halt(state, END, NoInterrupt, FALSE, h)
      [] node = "generate_command" ->
            IF response = Raise
            THEN Halt(state, node, NoInterrupt, TRUE, h)
            ELSE RunGraph(ApplyUpdate(state, generate_command_node(state, response)),
                          Edge(node), NoResume, NoInterrupt, response, outcome,
                          NoVia, h)
      [] node = "retry_command" ->
            IF response = Raise
            THEN Halt(state, node, NoInterrupt, TRUE, h)
            ELSE RunGraph(ApplyUpdate(state, retry_command_node(state, response)),
                          Edge(node), NoResume, NoInterrupt, response, outcome,
                          NoVia, h)
      [] node = "human_approval" ->
            LET r == human_approval_node(state, resume)
            IN  IF IsInterrupt(r.interrupt)
                THEN Halt(state, node, r.interrupt, FALSE, h)
                ELSE RunGraph(ApplyUpdate(state, r.update), r.goto, NoResume,
                              NoInterrupt, response, outcome,
                              [node |-> node, decision |-> resume,
                               shown |-> Get(pending, "command", <<>>)],
                              [h EXCEPT !.ended = IF r.goto = END THEN node ELSE @])
      [] node = "execute_command" ->
            RunGraph(ApplyUpdate(state, execute_command_node(state, outcome)),
                     Edge(node), NoResume, NoInterrupt, response, outcome, NoVia,
                     [h EXCEPT !.execs = @ + 1,
                               !.lastRun = [executed |-> TRUE,
                                            command |-> state.generated_command,
                                            via |-> via,
                                            outcome |-> outcome,
                                            retry_count |-> state.retry_count]])
      [] node = "check_result" ->
            LET r == check_result_node(state, resume)
            IN  IF IsInterrupt(r.interrupt)
                THEN Halt(state, node, r.interrupt, FALSE, h)
                ELSE RunGraph(ApplyUpdate(state, r.update), r.goto, NoResume,
                              NoInterrupt, response, outcome, NoVia,
                              [h EXCEPT !.retries = IF r.goto = "retry_command"
                                                    THEN @ + 1 ELSE @,
                                        !.ended = IF r.goto = END THEN node ELSE @])

\* the record the checkpointer keeps for a thread after a run
Checkpoint(r) == [values |-> r.values, next |-> r.next, interrupt |-> r.interrupt]

Put(f, k, v) == [x \in DOMAIN f \cup {k} |-> IF x = k THEN v ELSE f[x]]

Remove(f, k) == [x \in DOMAIN f \ {k} |-> f[x]]

\* whether a run from node with this resume value calls the generator
CallsGenerator(node, value) ==
    \/ node \in {"generate_command", "retry_command"}
    \/ node = "human_approval" /\ value = "reject"
    \/ node = "check_result" /\ value = "retry"

\* whether a run from node with this resume value calls the command runner
CallsRunner(node, value) == node = "human_approval" /\ value = "approve"

\* the collaborators' answers are drawn for the calls the run makes only
Consulted(node, value, response, outcome) ==
    /\ (response = NoResponse) <=> ~CallsGenerator(node, value)
    /\ (outcome = NoOutcome) <=> ~CallsRunner(node, value)

\* app.invoke(initial_state, config): the input is written over the thread's
\* state and the graph runs from its entry point
InvokeInput(state, response) ==
    RunGraph(state, "generate_command", NoResume, NoInterrupt, response, NoOutcome,
             NoVia, HistInit)

\* a resume at check_result that runs the node before it again
InvokeResume_replays(tid, value, response, outcome) ==
    RunGraph(checkpoints[tid].values,
             IF checkpoints[tid].next = "check_result" THEN "execute_command"
             ELSE checkpoints[tid].next,
             value, checkpoints[tid].interrupt, response, outcome, NoVia,
             [hist[tid] EXCEPT !.lastRun = NoExec])

\* app.invoke(Command(resume=value), config): the graph runs from the thread's
\* checkpoint
InvokeResume(tid, value, response, outcome) ==
    RunGraph(checkpoints[tid].values, checkpoints[tid].next, value,
             checkpoints[tid].interrupt, response, outcome, NoVia,
             [hist[tid] EXCEPT !.lastRun = NoExec])

(***************************************************************************)
(* The idle values of the parts of the state.                              *)
(***************************************************************************)
Clients == {"c1", "c2"}

Prompts == {"p1", "p2"}

\* hash(user_input): distinct prompts have distinct hashes
Hash(p) == IF p = "p1" THEN 1 ELSE 2

\* ThreadId without the value of uuid4()
ThreadId_no_uuid(client, id) == [client |-> client, uuid |-> 0]

ThreadId(client, id) == [client |-> client, uuid |-> id]

NoThread == ThreadId("", 0)

NoMessage == [type |-> ""]

\* lastOp: the message handled (type), what the session entry was before it
\* (pre: "absent", "idle", "approval" or "retry"), the options of the pending
\* interrupt, whether the graph was invoked, on which thread and with which
\* resume value, and the message sent back
NoOp == [type |-> "", pre |-> "absent", options |-> {}, invoked |-> FALSE,
         config |-> NoThread, value |-> NoResume, reply |-> NoMessage]

CleanIdle ==
    /\ text = <<>>
    /\ cleaned = <<>>
    /\ cleanedTwice = <<>>
    /\ cleanPc = "off"

StoreEmpty ==
    /\ checkpoints = [t \in {} |-> 0]
    /\ hist = [t \in {} |-> 0]

ServerIdle ==
    /\ conn = [c \in Clients |-> "off"]
    /\ active_sessions = [c \in {} |-> 0]
    /\ nextUuid = 1
    /\ lastOp = [c \in Clients |-> NoOp]

\* no choice was read
NoChoice == [node |-> "", choice |-> NoResume]

CliIdle ==
    /\ cliPc = "off"
    /\ cliConfig = NoThread
    /\ cliResult = NoInterrupt
    /\ cliLog = ""
    /\ user_response = NoChoice

\* no handler blocks the event loop
NoClient == ""

LoopIdle ==
    /\ arrived = [c \in Clients |-> 0]
    /\ inbox = [c \in Clients |-> <<>>]
    /\ handler = [c \in Clients |-> [pc |-> "idle", message |-> 0]]
    /\ inflight = [c \in Clients |-> 0]
    /\ running = NoClient

(***************************************************************************)
(* SpecClean: clean_command_output applied to a text, and to its result.   *)
(***************************************************************************)
InitClean ==
    /\ text \in Texts
    /\ cleaned = <<>>
    /\ cleanedTwice = <<>>
    /\ cleanPc = "input"
    /\ StoreEmpty
    /\ ServerIdle
    /\ CliIdle
    /\ LoopIdle

CleanOnce ==
    /\ cleanPc = "input"
    /\ cleaned' = clean_command_output(text)
    /\ cleanPc' = "once"
    /\ UNCHANGED <<text, cleanedTwice, checkpoints, hist, serverVars, cliVars, loopVars>>

CleanTwice ==
    /\ cleanPc = "once"
    /\ cleanedTwice' = clean_command_output(cleaned)
    /\ cleanPc' = "twice"
    /\ UNCHANGED <<text, cleaned, checkpoints, hist, serverVars, cliVars, loopVars>>

NextClean == CleanOnce \/ CleanTwice

SpecClean == InitClean /\ [][NextClean]_vars

(***************************************************************************)
(* SpecCli: the loop of graph.py main() with utils.handle_user_interrupt.  *)
(* One request runs at a time; hist holds the history of that request.     *)
(***************************************************************************)
\* what the user can type at "Your choice", stripped and lower-cased
Choices == {"approve", "reject", "cancel", "retry", "stop", "yes"}

InitCli ==
    /\ CleanIdle
    /\ LoopIdle
    /\ StoreEmpty
    /\ ServerIdle
    /\ cliPc = "request"
    /\ cliConfig = NoThread
    /\ cliResult = NoInterrupt
    /\ cliLog = ""
    /\ user_response = NoChoice

\* what main() does with the return of an invoke: an exception is printed, an
\* interrupt is put to the user, a finished run is printed by print_result
CliAfterInvoke(tid, r) ==
    /\ checkpoints' = Put(checkpoints, tid, Checkpoint(r))
    /\ hist' = Put([t \in {} |-> 0], tid, r.hist)
    /\ cliConfig' = tid
    /\ IF r.raised
       THEN /\ cliPc' = "request"
            /\ cliResult' = NoInterrupt
            /\ cliLog' = "error"
       ELSE IF IsInterrupt(r.interrupt)
       THEN /\ cliPc' = "choice"
            /\ cliResult' = r.interrupt
            /\ cliLog' = "question"
       ELSE /\ cliPc' = "request"
            /\ cliResult' = NoInterrupt
            /\ cliLog' = "result"

\* main(): a request is read and the graph invoked on it
CliRequest(p, response) ==
    /\ cliPc = "request"
    /\ CliAfterInvoke(ThreadId("cli", Hash(p)), InvokeInput(initial_state(p), response))
    /\ user_response' = NoChoice
    /\ UNCHANGED <<cleanVars, loopVars, serverVars>>

\* handle_user_interrupt: a choice is read; one that is no key of the options
\* is asked again, a valid one resumes the graph
CliChoice(choice, response, outcome) ==
    /\ cliPc = "choice"
    /\ user_response' = [node |-> checkpoints[cliConfig].next, choice |-> choice]
    /\ IF choice \in cliResult.options
       THEN /\ Consulted(checkpoints[cliConfig].next, choice, response, outcome)
            /\ CliAfterInvoke(cliConfig,
                              InvokeResume(cliConfig, choice, response, outcome))
       ELSE /\ response = NoResponse
            /\ outcome = NoOutcome
            /\ cliLog' = "please enter one of"
            /\ UNCHANGED <<checkpoints, hist, cliPc, cliConfig, cliResult>>
    /\ UNCHANGED <<cleanVars, loopVars, serverVars>>

\* main(): quit, exit or q
CliQuit ==
    /\ cliPc = "request"
    /\ cliPc' = "quit"
    /\ UNCHANGED <<cleanVars, loopVars, serverVars, checkpoints, hist, cliConfig, cliResult,
                   cliLog, user_response>>

NextCli ==
    \/ \E p \in Prompts, response \in LlmOutcomes : CliRequest(p, response)
    \/ \E choice \in Choices, response \in LlmOutcomes \cup {NoResponse},
          outcome \in RunnerOutcomes \cup {NoOutcome} :
          CliChoice(choice, response, outcome)
    \/ CliQuit

SpecCli == InitCli /\ [][NextCli]_vars

(***************************************************************************)
(* Spec: AgentServer (server.py).  One handler runs at a time: the graph   *)
(* is invoked synchronously, a connection's messages are handled one after *)
(* the other, and the only awaits of a handler are its sends.  The         *)
(* collaborators of the server's sessions answer from smaller sets than    *)
(* those of SpecCli, which keeps two concurrent sessions checkable.        *)
(***************************************************************************)
ServerPrompts == {"p1"}

ServerLlmOutcomes ==
    { <<"bt", "bt", "bt", "nl", "a", "nl", "bt", "bt", "bt">>, Raise }

ServerRunnerOutcomes ==
    { [kind |-> "exit", returncode |-> 0, stdout |-> "out", stderr |-> ""],
      [kind |-> "exit", returncode |-> 1, stdout |-> "out", stderr |-> "err"] }

Init ==
    /\ CleanIdle
    /\ LoopIdle
    /\ StoreEmpty
    /\ CliIdle
    /\ conn = [c \in Clients |-> "new"]
    /\ active_sessions = [c \in {} |-> 0]
    /\ nextUuid = 1
    /\ lastOp = [c \in Clients |-> NoOp]

\* the entry of a client as the response handlers see it
Pre(c) ==
    IF c \notin DOMAIN active_sessions THEN "absent"
    ELSE IF ~active_sessions[c].waiting_for_response THEN "idle"
    ELSE active_sessions[c].interrupt_type

\* the options of the interrupt a client's workflow is suspended at
PendingOptions(c) ==
    IF c \notin DOMAIN active_sessions THEN {}
    ELSE Get(checkpoints[active_sessions[c].config].interrupt, "options", {})

\* the message handle_interrupt sends for an interrupt payload
InterruptMessage(iv) ==
    IF "command" \in DOMAIN iv
    THEN [type |-> "command_approval", content |-> "",
          command |-> Get(iv, "command", <<>>),
          explanation |-> Get(iv, "question", ""),
          retry_count |-> Get(iv, "retry_count", 0)]
    ELSE IF "error" \in DOMAIN iv
    THEN [type |-> "retry_request", content |-> "",
          command |-> Get(iv, "command", <<>>),
          error |-> Get(iv, "error", ""),
          output |-> Get(iv, "output", ""),
          retry_count |-> Get(iv, "retry_count", 0)]
    ELSE NoMessage

\* the entry handle_interrupt leaves for an interrupt payload
InterruptSession(session, iv, config) ==
    IF "command" \in DOMAIN iv
    THEN [config |-> config, waiting_for_response |-> TRUE, interrupt_type |-> "approval"]
    ELSE IF "error" \in DOMAIN iv
    THEN [config |-> config, waiting_for_response |-> TRUE, interrupt_type |-> "retry"]
    ELSE session

\* the command_output message sent for a finished graph
ResultMessage(final_state) ==
    IF final_state.command_error # ""
    THEN [type |-> "command_output", content |-> "",
          output |-> final_state.command_output,
          error |-> final_state.command_error,
          success |-> FALSE]
    ELSE [type |-> "command_output", content |-> "",
          output |-> final_state.command_output,
          success |-> TRUE]

ErrorMessage(content) == [type |-> "error", content |-> content]

\* AfterInvoke with the entry of a finished workflow kept
AfterInvoke_keeps_entry(c, session, config, r, op) ==
    IF IsInterrupt(r.interrupt)
    THEN /\ active_sessions' = Put(active_sessions, c,
                                   InterruptSession(session, r.interrupt, config))
         /\ lastOp' = [lastOp EXCEPT ![c] =
                          [op EXCEPT !.reply = InterruptMessage(r.interrupt)]]
    ELSE /\ active_sessions' = Put(active_sessions, c, session)
         /\ lastOp' = [lastOp EXCEPT ![c] =
                          [op EXCEPT !.reply = ResultMessage(r.values)]]

\* run_agent_graph after the invoke, and continue_after_response: an interrupt
\* is put to the client and the entry waits; a finished graph is reported and
\* the entry deleted.  session is the entry when the invoke returned.
AfterInvoke(c, session, config, r, op) ==
    IF IsInterrupt(r.interrupt)
    THEN /\ active_sessions' = Put(active_sessions, c,
                                   InterruptSession(session, r.interrupt, config))
         /\ lastOp' = [lastOp EXCEPT ![c] =
                          [op EXCEPT !.reply = InterruptMessage(r.interrupt)]]
    ELSE /\ active_sessions' = Remove(active_sessions, c)
         /\ lastOp' = [lastOp EXCEPT ![c] =
                          [op EXCEPT !.reply = ResultMessage(r.values)]]

\* handle_websocket: a connection is accepted under a fresh client_id
Connect(c) ==
    /\ conn[c] = "new"
    /\ conn' = [conn EXCEPT ![c] = "open"]
    /\ lastOp' = [lastOp EXCEPT ![c] =
                     [NoOp EXCEPT !.type = "connect",
                                  !.reply = [type |-> "message",
                                             content |-> "Connected to Cloud Assist Agent"]]]
    /\ UNCHANGED <<cleanVars, loopVars, cliVars, checkpoints, hist, active_sessions, nextUuid>>

\* start_agent_session and run_agent_graph, for a message of type "message"
start_agent_session(c, user_prompt, response) ==
    /\ conn[c] = "open"
    /\ nextUuid <= MaxSessions
    /\ LET config == ThreadId(c, nextUuid)
           session == [config |-> config, waiting_for_response |-> FALSE,
                       interrupt_type |-> "None"]
           r == InvokeInput(initial_state(user_prompt), response)
           op == [NoOp EXCEPT !.type = "message", !.pre = Pre(c),
                              !.options = PendingOptions(c), !.invoked = TRUE,
                              !.config = config]
       IN  /\ nextUuid' = nextUuid + 1
           /\ checkpoints' = Put(checkpoints, config, Checkpoint(r))
           /\ hist' = Put(hist, config, r.hist)
           /\ IF r.raised
              THEN /\ active_sessions' = Remove(active_sessions, c)
                   /\ lastOp' = [lastOp EXCEPT ![c] =
                                    [op EXCEPT !.reply = ErrorMessage("GenerationError")]]
              ELSE AfterInvoke(c, session, config, r, op)
    /\ UNCHANGED <<cleanVars, loopVars, cliVars, conn>>

\* the test of the response handlers with the interrupt type left out
NotWaiting_any_type(session, kind) == ~session.waiting_for_response

\* the test of handle_approval_response and handle_retry_response on the entry
NotWaiting(session, kind) ==
    ~session.waiting_for_response \/ session.interrupt_type # kind

\* handle_approval_response (kind "approval", message command_approval) and
\* handle_retry_response (kind "retry", message retry_response): value is the
\* resume value the handler derives from the message
HandleResponse(c, kind, type, value, response, outcome) ==
    /\ conn[c] = "open"
    /\ LET op == [NoOp EXCEPT !.type = type, !.pre = Pre(c),
                              !.options = PendingOptions(c)]
       IN  IF c \notin DOMAIN active_sessions
           THEN /\ response = NoResponse
                /\ outcome = NoOutcome
                /\ lastOp' = [lastOp EXCEPT ![c] =
                                 [op EXCEPT !.reply = ErrorMessage("No active session found")]]
                /\ UNCHANGED <<checkpoints, hist, active_sessions>>
           ELSE IF NotWaiting(active_sessions[c], kind)
           THEN /\ response = NoResponse
                /\ outcome = NoOutcome
                /\ lastOp' = [lastOp EXCEPT ![c] =
                                 [op EXCEPT !.reply = ErrorMessage(
                                     IF kind = "approval" THEN "Not waiting for approval"
                                     ELSE "Not waiting for retry response")]]
                /\ UNCHANGED <<checkpoints, hist, active_sessions>>
           ELSE LET session == active_sessions[c]
                    config == session.config
                    r == InvokeResume(config, value, response, outcome)
                    run == [op EXCEPT !.invoked = TRUE, !.config = config, !.value = value]
                IN  /\ Consulted(checkpoints[config].next, value, response, outcome)
                    /\ checkpoints' = Put(checkpoints, config, Checkpoint(r))
                    /\ hist' = Put(hist, config, r.hist)
                    /\ IF r.raised
                       THEN /\ lastOp' = [lastOp EXCEPT ![c] =
                                    [run EXCEPT !.reply = ErrorMessage("GenerationError")]]
                            /\ UNCHANGED active_sessions
                       ELSE AfterInvoke(c,
                                [session EXCEPT !.waiting_for_response = FALSE,
                                                !.interrupt_type = "None"],
                                config, r, run)
    /\ UNCHANGED <<cleanVars, loopVars, cliVars, conn, nextUuid>>

handle_approval_response(c, approved, response, outcome) ==
    HandleResponse(c, "approval", "command_approval",
                   IF approved THEN "approve" ELSE "reject", response, outcome)

handle_retry_response(c, retry, response, outcome) ==
    HandleResponse(c, "retry", "retry_response",
                   IF retry THEN "retry" ELSE "cancel", response, outcome)

\* handle_client_message: a message of another type
UnknownMessage(c) ==
    /\ conn[c] = "open"
    /\ lastOp' = [lastOp EXCEPT ![c] =
                     [NoOp EXCEPT !.type = "unknown", !.pre = Pre(c),
                                  !.options = PendingOptions(c),
                                  !.reply = ErrorMessage("Unknown message type")]]
    /\ UNCHANGED <<cleanVars, loopVars, cliVars, checkpoints, hist, conn, active_sessions, nextUuid>>

\* handle_websocket: the connection ends; the client and its entry are dropped
Disconnect(c) ==
    /\ conn[c] = "open"
    /\ conn' = [conn EXCEPT ![c] = "closed"]
    /\ active_sessions' = Remove(active_sessions, c)
    /\ lastOp' = [lastOp EXCEPT ![c] =
                     [NoOp EXCEPT !.type = "disconnect", !.pre = Pre(c),
                                  !.options = PendingOptions(c)]]
    /\ UNCHANGED <<cleanVars, loopVars, cliVars, checkpoints, hist, nextUuid>>

Next ==
    \/ \E c \in Clients : Connect(c)
    \/ \E c \in Clients, p \in ServerPrompts, response \in ServerLlmOutcomes :
          start_agent_session(c, p, response)
    \/ \E c \in Clients, approved \in BOOLEAN,
          response \in ServerLlmOutcomes \cup {NoResponse},
          outcome \in ServerRunnerOutcomes \cup {NoOutcome} :
          handle_approval_response(c, approved, response, outcome)
    \/ \E c \in Clients, retry \in BOOLEAN,
          response \in ServerLlmOutcomes \cup {NoResponse},
          outcome \in ServerRunnerOutcomes \cup {NoOutcome} :
          handle_retry_response(c, retry, response, outcome)
    \/ \E c \in Clients : UnknownMessage(c)
    \/ \E c \in Clients : Disconnect(c)

Spec == Init /\ [][Next]_vars

(***************************************************************************)
(* SpecRetryAll: the server with every execution failing with an error and *)
(* the clients answering approve to every approval request and retry to    *)
(* every retry request.                                                    *)
(***************************************************************************)
FailingOutcomes ==
    {o \in ServerRunnerOutcomes : execute_shell_command(<<>>, o).command_error # ""}

NextRetryAll ==
    \/ \E c \in Clients : Connect(c)
    \/ \E c \in Clients, p \in ServerPrompts, response \in ServerLlmOutcomes :
          start_agent_session(c, p, response)
    \/ \E c \in Clients, response \in ServerLlmOutcomes \cup {NoResponse},
          outcome \in FailingOutcomes \cup {NoOutcome} :
          handle_approval_response(c, TRUE, response, outcome)
    \/ \E c \in Clients, response \in ServerLlmOutcomes \cup {NoResponse} :
          handle_retry_response(c, TRUE, response, NoOutcome)

SpecRetryAll == Init /\ [][NextRetryAll]_vars

(***************************************************************************)
(* SpecLoop: the connection loops of handle_websocket on the one thread of *)
(* the asyncio event loop.  A coroutine runs until it awaits something not *)
(* ready; agent_graph.invoke is an ordinary call, so from the message      *)
(* being taken to the return of invoke nothing else runs.  The messages of *)
(* a connection are numbered in arrival order.  What the workflow does is  *)
(* left out: a handler either invokes it or answers at once.               *)
(***************************************************************************)
InitLoop ==
    /\ CleanIdle
    /\ StoreEmpty
    /\ ServerIdle
    /\ CliIdle
    /\ LoopIdle

\* the websocket receives a message; it waits until the loop asks for it
Arrive(c) ==
    /\ arrived[c] < MaxMessages
    /\ arrived' = [arrived EXCEPT ![c] = @ + 1]
    /\ inbox' = [inbox EXCEPT ![c] = Append(@, arrived[c] + 1)]
    /\ UNCHANGED <<handler, inflight, running>>
    /\ UNCHANGED <<cleanVars, cliVars, serverVars, checkpoints, hist>>

\* handlers started for every message without awaiting the one before
LoopRuns_unawaited(c) == TRUE

\* async for message in websocket: await self.handle_client_message(...):
\* the loop of a connection asks for the next message when the handler of
\* the one before has returned, and runs when the event loop is free
LoopRuns(c) == handler[c].pc = "idle" /\ running = NoClient

\* the next message is taken and handled up to the call of invoke, or up to
\* the send of the answer when the handler does not invoke
Begin(c, invokes) ==
    /\ LoopRuns(c)
    /\ inbox[c] # <<>>
    /\ inbox' = [inbox EXCEPT ![c] = Tail(@)]
    /\ IF invokes
       THEN /\ handler' = [handler EXCEPT ![c] =
                              [pc |-> "invoking", message |-> Head(inbox[c])]]
            /\ inflight' = [inflight EXCEPT ![c] = @ + 1]
            /\ running' = c
       ELSE /\ handler' = [handler EXCEPT ![c] =
                              [pc |-> "sending", message |-> Head(inbox[c])]]
            /\ UNCHANGED <<inflight, running>>
    /\ UNCHANGED arrived
    /\ UNCHANGED <<cleanVars, cliVars, serverVars, checkpoints, hist>>

\* agent_graph.invoke returns and the handler awaits the send of its answer
Return(c) ==
    /\ handler[c].pc = "invoking"
    /\ handler' = [handler EXCEPT ![c].pc = "sending"]
    /\ inflight' = [inflight EXCEPT ![c] = @ - 1]
    /\ running' = NoClient
    /\ UNCHANGED <<arrived, inbox>>
    /\ UNCHANGED <<cleanVars, cliVars, serverVars, checkpoints, hist>>

\* the answer is sent and handle_client_message returns to the loop
Sent(c) ==
    /\ handler[c].pc = "sending"
    /\ running = NoClient
    /\ handler' = [handler EXCEPT ![c].pc = "idle"]
    /\ UNCHANGED <<arrived, inbox, inflight, running>>
    /\ UNCHANGED <<cleanVars, cliVars, serverVars, checkpoints, hist>>

NextLoop ==
    \/ \E c \in Clients : Arrive(c)
    \/ \E c \in Clients, invokes \in BOOLEAN : Begin(c, invokes)
    \/ \E c \in Clients : Return(c)
    \/ \E c \in Clients : Sent(c)

SpecLoop == InitLoop /\ [][NextLoop]_vars

(***************************************************************************)
(* SpecLive: the server with clients that stay connected, send a request   *)
(* only when they have no session, and answer every decision request with  *)
(* a decision of its kind; the generator and the command runner return.    *)
(* A client that is asked for approval eventually approves, and a client   *)
(* that is asked about a retry eventually answers.                         *)
(***************************************************************************)
LiveLlmOutcomes == ServerLlmOutcomes \ {Raise}

\* handle_client_message for a "message" of a client without a session
LiveStart(c) ==
    /\ Pre(c) = "absent"
    /\ \E p \in ServerPrompts, response \in LiveLlmOutcomes :
          start_agent_session(c, p, response)

\* handle_client_message for the answer approved = true to an approval request
LiveApprove(c) ==
    /\ Pre(c) = "approval"
    /\ \E outcome \in ServerRunnerOutcomes :
          handle_approval_response(c, TRUE, NoResponse, outcome)

\* handle_client_message for the answer approved = false to an approval request
LiveReject(c) ==
    /\ Pre(c) = "approval"
    /\ \E response \in LiveLlmOutcomes :
          handle_approval_response(c, FALSE, response, NoOutcome)

\* handle_client_message for an answer to a retry request
LiveRetryAnswer(c) ==
    /\ Pre(c) = "retry"
    /\ \E retry \in BOOLEAN, response \in LiveLlmOutcomes \cup {NoResponse} :
          handle_retry_response(c, retry, response, NoOutcome)

NextLive ==
    \/ \E c \in Clients : Connect(c)
    \/ \E c \in Clients : LiveStart(c)
    \/ \E c \in Clients : LiveApprove(c)
    \/ \E c \in Clients : LiveReject(c)
    \/ \E c \in Clients : LiveRetryAnswer(c)

LiveFairness ==
    \A c \in Clients : WF_vars(LiveApprove(c)) /\ WF_vars(LiveRetryAnswer(c))

SpecLive == Init /\ [][NextLive]_vars /\ LiveFairness

(***************************************************************************)
(* The properties.                                                         *)
(***************************************************************************)

\* C1: every invocation of the command runner happens in an invoke that was
\* resumed at the approval interrupt with the decision "approve", and runs
\* exactly the command that interrupt showed; no run reaches execute_command
\* in another way.
C1_ExecutionOnlyAfterApprove ==
    \A t \in DOMAIN hist :
        hist[t].lastRun.executed =>
            /\ hist[t].lastRun.via.node = "human_approval"
            /\ hist[t].lastRun.via.decision = "approve"
            /\ hist[t].lastRun.via.shown = hist[t].lastRun.command

\* C1 witness: a command was run after the user saw it and approved
C1_Witness ==
    \E t \in DOMAIN hist :
        /\ hist[t].lastRun.executed
        /\ hist[t].lastRun.command = <<"a">>
        /\ hist[t].execs = 2

\* C2: retry_count stays within 0..3, no retry request is pending or put to
\* the user with retry_count = 3, and an execution at retry_count = 3 ends
\* the workflow whatever its outcome.
C2_RetryCountBounded ==
    /\ \A t \in DOMAIN checkpoints :
          /\ checkpoints[t].values.retry_count \in 0..3
          /\ "error" \in DOMAIN checkpoints[t].interrupt
                => checkpoints[t].values.retry_count < 3
    /\ \A t \in DOMAIN hist :
          (hist[t].lastRun.executed /\ hist[t].lastRun.retry_count = 3)
            => /\ checkpoints[t].next = END
               /\ ~IsInterrupt(checkpoints[t].interrupt)
    /\ (cliPc = "choice" /\ "error" \in DOMAIN cliResult) => cliResult.retry_count < 3

\* C2 witness: check_result ran with retry_count = 3 after a failed execution
C2_Witness ==
    \E t \in DOMAIN hist :
        /\ hist[t].lastRun.executed
        /\ hist[t].lastRun.retry_count = 3
        /\ checkpoints[t].values.command_error # ""

\* the invoke that ran the n-th execution of a client's session has just
\* returned and its reply is the last message sent to the client
JustExecuted(t, n) ==
    /\ hist[t].lastRun.executed
    /\ hist[t].execs = n
    /\ checkpoints[t].values.command_error # ""
    /\ lastOp[t.client].invoked
    /\ lastOp[t.client].config = t

\* the session ended and the client was told success = false
EndedFailed(t) ==
    /\ checkpoints[t].next = END
    /\ ~IsInterrupt(checkpoints[t].interrupt)
    /\ lastOp[t.client].reply.type = "command_output"
    /\ lastOp[t.client].reply.success = FALSE

\* C3 as stated: the third failing execution goes straight to the terminal
\* state with success = false, with no retry request after it.
C3_ThirdFailureEnds ==
    \A t \in DOMAIN hist : JustExecuted(t, 3) => EndedFailed(t)

\* C3 amended: the fourth failing execution (retry_count = 3) goes straight to
\* the terminal state with success = false and no retry request; each of the
\* first three failing executions is followed by a retry request.
C3_FourthFailureEnds ==
    \A t \in DOMAIN hist :
        /\ JustExecuted(t, 4) => EndedFailed(t)
        /\ \A n \in 1..3 :
              JustExecuted(t, n) =>
                  /\ checkpoints[t].next = "check_result"
                  /\ lastOp[t.client].reply.type = "retry_request"
        /\ hist[t].execs <= 4

\* C3 witness: a fourth execution failed
C3_Witness == \E t \in DOMAIN hist : JustExecuted(t, 4)

\* C4 as stated: in a terminal state the executions are the accepted retries
\* plus one, and retry_count is the number of accepted retries, at most 3.
C4_ExecutionsAreRetriesPlusOne ==
    \A t \in DOMAIN hist :
        checkpoints[t].next = END =>
            /\ hist[t].execs = hist[t].retries + 1
            /\ checkpoints[t].values.retry_count = hist[t].retries
            /\ checkpoints[t].values.retry_count <= 3

\* C4 amended: a workflow ended by check_result ran the accepted retries plus
\* one executions; one ended at the approval request (cancel) ran as many
\* executions as retries were accepted; in both retry_count is the number of
\* accepted retries, at most 3.
C4_ExecutionsByEnding ==
    \A t \in DOMAIN hist :
        checkpoints[t].next = END =>
            /\ hist[t].ended \in {"check_result", "human_approval"}
            /\ hist[t].execs = hist[t].retries
                                + (IF hist[t].ended = "check_result" THEN 1 ELSE 0)
            /\ checkpoints[t].values.retry_count = hist[t].retries
            /\ checkpoints[t].values.retry_count <= 3

\* C4 witness: a workflow ended by check_result after two accepted retries
C4_Witness ==
    \E t \in DOMAIN hist :
        /\ checkpoints[t].next = END
        /\ hist[t].ended = "check_result"
        /\ hist[t].retries = 2
        /\ hist[t].execs = 3

\* C5: clean_command_output is idempotent.
C5_CleanIdempotent == cleanPc = "twice" => cleanedTwice = cleaned

\* C6: a text that does not begin with a fence is returned with only the
\* surrounding whitespace trimmed.
C6_UnfencedOnlyTrimmed ==
    (cleanPc \in {"once", "twice"} /\ ~startswith(text, FENCE)) => cleaned = strip(text)

\* a text with no backtick
NoBacktick(s) == \A i \in 1..Len(s) : s[i] # "bt"

\* the text after the first line feed
AfterFirstLine(s) ==
    LET nl == {i \in 1..Len(s) : s[i] = "nl"}
        first == CHOOSE i \in nl : \A j \in nl : i <= j
    IN  SubSeq(s, first + 1, Len(s))

\* a fenced block: an opening fence line (the fence and a tag with no
\* backtick), then a body with no backtick, then optionally a line holding
\* the trailing fence
FencedBlock(s) ==
    /\ startswith(s, FENCE)
    /\ \E i \in 1..Len(s) : s[i] = "nl"
    /\ NoBacktick(SubSeq(split(s)[1], 4, Len(split(s)[1])))
    /\ LET rest == strip(AfterFirstLine(s))
           body == SubSeq(rest, 1, Len(rest) - 3)
       IN  \/ NoBacktick(rest)
           \/ /\ endswith(rest, FENCE)
              /\ NoBacktick(body)
              /\ body = <<>> \/ body[Len(body)] = "nl"

\* the body of a fenced block: the opening fence line and the trailing fence
\* removed, whitespace trimmed
FencedBody(s) ==
    LET rest == strip(AfterFirstLine(s))
    IN  IF endswith(rest, FENCE) THEN strip(SubSeq(rest, 1, Len(rest) - 3)) ELSE rest

\* a one-line text fence + command + fence, the command with no backtick and
\* not blank
OneLineFenced(s) ==
    /\ Len(s) > 6
    /\ startswith(s, FENCE)
    /\ endswith(s, FENCE)
    /\ NoBacktick(SubSeq(s, 4, Len(s) - 3))
    /\ \A i \in 1..Len(s) : s[i] # "nl"
    /\ strip(SubSeq(s, 4, Len(s) - 3)) # <<>>

\* C7: a fenced block is cleaned to its whole body, and a one-line
\* fence + command + fence to the bare command.
C7_FencedBodyReturned ==
    cleanPc \in {"once", "twice"} =>
        /\ FencedBlock(text) => cleaned = FencedBody(text)
        /\ OneLineFenced(text) => cleaned = strip(SubSeq(text, 4, Len(text) - 3))

\* C8: the command given to the command runner is never empty.
C8_ExecutedCommandNotEmpty ==
    \A t \in DOMAIN hist : hist[t].lastRun.executed => hist[t].lastRun.command # <<>>

\* C9: a resume value that is not among the options of the pending interrupt
\* is answered with an error and leaves the session suspended at the same
\* decision.
C9_InvalidDecisionRejected ==
    \A c \in Clients :
        (/\ lastOp[c].invoked
         /\ lastOp[c].value # NoResume
         /\ lastOp[c].options # {}
         /\ lastOp[c].value \notin lastOp[c].options)
        => /\ lastOp[c].reply.type = "error"
           /\ Pre(c) = lastOp[c].pre

\* the interrupt type a response message answers
KindOf(type) == IF type = "command_approval" THEN "approval" ELSE "retry"

\* C10: a command_approval or retry_response message resumes the workflow only
\* when the entry waits for a response of that type; otherwise the client gets
\* an error (Not waiting ..., or No active session found when it has no
\* entry), the graph is not invoked and the entries and checkpoints stay.
C10_HandledStep(c) ==
    LET op == lastOp'[c]
    IN  (op # lastOp[c] /\ op.type \in {"command_approval", "retry_response"}) =>
            /\ op.pre = Pre(c)
            /\ op.invoked <=> op.pre = KindOf(op.type)
            /\ ~op.invoked =>
                  /\ op.reply.type = "error"
                  /\ op.reply.content =
                        (IF op.pre = "absent" THEN "No active session found"
                         ELSE IF op.type = "command_approval"
                         THEN "Not waiting for approval"
                         ELSE "Not waiting for retry response")
                  /\ active_sessions' = active_sessions
                  /\ checkpoints' = checkpoints
                  /\ hist' = hist

C10_ResponseOnlyWhenWaiting == [][\A c \in Clients : C10_HandledStep(c)]_vars

\* C10 witness: a command_approval arrived while the session waited for a
\* retry decision and was refused
C10_Witness ==
    \E c \in Clients :
        /\ lastOp[c].type = "command_approval"
        /\ lastOp[c].pre = "retry"
        /\ ~lastOp[c].invoked
        /\ lastOp[c].reply = ErrorMessage("Not waiting for approval")
        /\ Pre(c) = "retry"

\* the threads whose workflow has reached the terminal state
Terminated == {t \in DOMAIN checkpoints : checkpoints[t].next = END}

\* C11, in every state: no session entry points at a workflow that has
\* reached the terminal state.
C11_NoEntryForEnded ==
    \A c \in DOMAIN active_sessions : active_sessions[c].config \notin Terminated

\* C11, in every step: the stored state of an ended workflow does not change;
\* a result message is sent only by the invoke that takes its thread to the
\* terminal state and removes the entry, so at most once per session; and a
\* command_approval or retry_response of a client with no entry is answered
\* with No active session found without invoking the workflow.
C11_EndedStep ==
    /\ \A t \in Terminated :
          /\ t \in DOMAIN checkpoints'
          /\ checkpoints'[t] = checkpoints[t]
          /\ hist'[t] = hist[t]
    /\ \A c \in Clients :
          LET op == lastOp'[c]
          IN  op # lastOp[c] =>
                /\ op.reply.type = "command_output" =>
                      /\ op.invoked
                      /\ op.config \notin Terminated
                      /\ checkpoints'[op.config].next = END
                      /\ c \notin DOMAIN active_sessions'
                /\ (op.type \in {"command_approval", "retry_response"}
                     /\ c \notin DOMAIN active_sessions) =>
                      /\ ~op.invoked
                      /\ op.reply = ErrorMessage("No active session found")
                      /\ checkpoints' = checkpoints
                      /\ active_sessions' = active_sessions

\* C11: once a session has ended and its result was sent, its entry is gone,
\* later responses of the client get No active session found, the workflow is
\* not resumed for it, its stored state stays, and it has one result message.
C11_EndedSessionStaysEnded == [][C11_EndedStep]_vars /\ []C11_NoEntryForEnded

\* C11 witness: a client whose session ended sent a response and was refused
C11_Witness ==
    \E c \in Clients :
        /\ lastOp[c].type = "retry_response"
        /\ lastOp[c].pre = "absent"
        /\ lastOp[c].reply = ErrorMessage("No active session found")
        /\ \E t \in Terminated : t.client = c /\ hist[t].execs > 0

\* C12: a cancel given at the approval request ends the workflow without the
\* command runner being called for the pending command, and no decision
\* request follows it: the loop prints the result and asks for a new request.
C12_CancelEndsWithoutExecution ==
    (user_response.node = "human_approval" /\ user_response.choice = "cancel") =>
        /\ checkpoints[cliConfig].next = END
        /\ ~IsInterrupt(checkpoints[cliConfig].interrupt)
        /\ hist[cliConfig].ended = "human_approval"
        /\ ~hist[cliConfig].lastRun.executed
        /\ hist[cliConfig].execs = hist[cliConfig].retries
        /\ cliPc # "choice"
        /\ cliResult = NoInterrupt
        /\ cliLog = "result"

\* C12 witness: the command proposed after a failed execution and an accepted
\* retry was cancelled
C12_Witness ==
    /\ user_response = [node |-> "human_approval", choice |-> "cancel"]
    /\ hist[cliConfig].retries = 1
    /\ checkpoints[cliConfig].values.generated_command = <<"a">>

\* the workflow of a thread is suspended at the interrupt of this type
SuspendedAt(t, kind) ==
    IF kind = "approval"
    THEN checkpoints[t].next = "human_approval" /\ "command" \in DOMAIN checkpoints[t].interrupt
    ELSE checkpoints[t].next = "check_result" /\ "error" \in DOMAIN checkpoints[t].interrupt

\* C13: between two message handlings, an entry has waiting_for_response and
\* an interrupt_type exactly when its workflow is suspended at the interrupt
\* of that type, and has no pending decision otherwise, also after a resume
\* that raised.
C13_WaitingIffSuspended ==
    \A c \in DOMAIN active_sessions :
        LET session == active_sessions[c]
        IN  /\ \A kind \in {"approval", "retry"} :
                  (session.waiting_for_response /\ session.interrupt_type = kind)
                      <=> SuspendedAt(session.config, kind)
            /\ ~session.waiting_for_response => session.interrupt_type = "None"

\* C14: after an invoke that raised, on the first run or on a resume, the
\* error is reported and the client has no session entry left.
C14_RaiseEndsSession ==
    \A c \in Clients :
        (lastOp[c].invoked /\ lastOp[c].reply = ErrorMessage("GenerationError"))
            => c \notin DOMAIN active_sessions

\* C15: after a connection is closed no checkpoint of a session of that
\* client is left in the checkpoint store, as no entry is.
C15_DisconnectDiscardsCheckpoint ==
    \A c \in Clients :
        conn[c] = "closed" =>
            /\ c \notin DOMAIN active_sessions
            /\ \A t \in DOMAIN checkpoints : t.client # c

\* the entry of a client, if it has one
EntryOf(sessions, c) == IF c \in DOMAIN sessions THEN <<sessions[c]>> ELSE <<>>

\* C16, in every step: a session that starts gets a thread_id no session ever
\* had, and the entry, the checkpoints and the pending decisions of every
\* client that did not act in the step are unchanged.
C16_Step ==
    /\ \A c \in Clients :
          (lastOp'[c] # lastOp[c] /\ lastOp'[c].type = "message") =>
              /\ lastOp'[c].config \notin DOMAIN checkpoints
              /\ lastOp'[c].config \in DOMAIN checkpoints'
              /\ \A d \in DOMAIN active_sessions :
                    active_sessions[d].config # lastOp'[c].config
    /\ \A d \in Clients :
          lastOp'[d] = lastOp[d] =>
              /\ EntryOf(active_sessions', d) = EntryOf(active_sessions, d)
              /\ \A t \in DOMAIN checkpoints :
                    t.client = d => /\ checkpoints'[t] = checkpoints[t]
                                    /\ hist'[t] = hist[t]

\* C16, in every state: an entry holds a thread_id of its own client, so no
\* two entries share one.
C16_OwnThread ==
    \A c \in DOMAIN active_sessions : active_sessions[c].config.client = c

\* C16: sessions get distinct thread_ids in every interleaving of the
\* clients, and a client's message never changes another client's entry,
\* checkpointed state or pending decision.
C16_SessionsIndependent == [][C16_Step]_vars /\ []C16_OwnThread

\* C16 witness: a client answered its approval request while the other
\* client's session stayed suspended at its own
C16_Witness ==
    /\ lastOp["c1"].type = "command_approval"
    /\ lastOp["c1"].invoked
    /\ lastOp["c1"].config = ThreadId("c1", 2)
    /\ "c2" \in DOMAIN active_sessions
    /\ active_sessions["c2"].config = ThreadId("c2", 1)
    /\ SuspendedAt(ThreadId("c2", 1), "approval")

\* C17, in every state: at most one invocation of the workflow is in flight
\* for a connection, and so for each of its thread_ids.
C17_OneInFlight ==
    \A c \in Clients :
        /\ inflight[c] <= 1
        /\ inflight[c] = 1 <=> (handler[c].pc = "invoking" /\ running = c)

\* C17, in every step: a message is taken for handling only when the handler
\* of the previous one has returned, with no invocation in flight for the
\* connection, and it is the next message in arrival order.
C17_Step ==
    \A c \in Clients :
        handler'[c].message # handler[c].message =>
            /\ handler[c].pc = "idle"
            /\ inflight[c] = 0
            /\ handler'[c].message = handler[c].message + 1

\* C17: the messages of a connection are handled one after the other in
\* arrival order, and no two invocations of the workflow overlap for a
\* thread_id.
C17_StepsNeverOverlap == [][C17_Step]_vars /\ []C17_OneInFlight

\* C17 witness: the second message of a connection is in an invocation while
\* its third waits and the other connection's handler is sending
C17_Witness ==
    /\ handler["c1"] = [pc |-> "invoking", message |-> 2]
    /\ inbox["c1"] = <<3>>
    /\ handler["c2"].pc = "sending"

\* the entry of a client waits for a decision of this type on this thread
WaitsFor(c, t, kind) ==
    /\ c \in DOMAIN active_sessions
    /\ active_sessions[c] = [config |-> t, waiting_for_response |-> TRUE,
                             interrupt_type |-> kind]

\* C18: an invoke of the workflow in which the generator and the command
\* runner returned leaves the workflow suspended at the approval request or
\* at the retry request, with that request sent to the client, or at the
\* terminal state with the result sent; it answers with an error only when
\* the generator raised.
C18_InvokeEndsSuspendedOrDone ==
    \A c \in Clients :
        lastOp[c].invoked =>
            LET t == lastOp[c].config
                reply == lastOp[c].reply
            IN  IF reply.type = "error"
                THEN checkpoints[t].next \in {"generate_command", "retry_command"}
                ELSE \/ /\ SuspendedAt(t, "approval")
                        /\ reply.type = "command_approval"
                        /\ WaitsFor(c, t, "approval")
                     \/ /\ SuspendedAt(t, "retry")
                        /\ reply.type = "retry_request"
                        /\ WaitsFor(c, t, "retry")
                     \/ /\ checkpoints[t].next = END
                        /\ ~IsInterrupt(checkpoints[t].interrupt)
                        /\ reply.type = "command_output"
                        /\ c \notin DOMAIN active_sessions

\* C18 witness: a resume with approve ran the command, which failed, and
\* returned suspended at the retry request
C18_Witness ==
    \E c \in Clients :
        /\ lastOp[c].invoked
        /\ lastOp[c].value = "approve"
        /\ lastOp[c].reply.type = "retry_request"
        /\ SuspendedAt(lastOp[c].config, "retry")

\* what follows a failed execution: a retry request while retry_count < 3,
\* the terminal state reached from check_result otherwise
FailedExecutionHandled(t) ==
    IF hist[t].lastRun.retry_count < 3
    THEN /\ SuspendedAt(t, "retry")
         /\ checkpoints[t].interrupt.error = checkpoints[t].values.command_error
         /\ hist[t].ended = ""
    ELSE /\ checkpoints[t].next = END
         /\ ~IsInterrupt(checkpoints[t].interrupt)
         /\ hist[t].ended = "check_result"

\* C19: an execution that timed out gives an empty output and the fixed
\* timeout error, and is then handled as any failed execution; the timeout
\* is never taken as a cancellation.
C19_TimeoutIsAFailure ==
    \A t \in DOMAIN hist :
        (hist[t].lastRun.executed /\ hist[t].lastRun.outcome.kind = "timeout") =>
            /\ checkpoints[t].values.command_output = ""
            /\ checkpoints[t].values.command_error = "Command timed out after 30 seconds"
            /\ FailedExecutionHandled(t)
            /\ hist[t].ended # "human_approval"

\* C19 witness: the execution after the third accepted retry timed out
C19_Witness ==
    \E t \in DOMAIN hist :
        /\ hist[t].lastRun.executed
        /\ hist[t].lastRun.outcome.kind = "timeout"
        /\ hist[t].lastRun.retry_count = 3

\* the outcomes check_result_node takes as an error
ErrorPresent(outcome) ==
    \/ outcome.kind = "exit" /\ outcome.returncode # 0 /\ outcome.stderr # ""
    \/ outcome.kind \in {"timeout", "exception"}

\* C20: after an execution the error is present exactly when the exit code
\* is not 0 and stderr is not empty, or the run timed out or raised; without
\* an error no retry request is made and the workflow ends; exit code 0
\* always gives an empty command_error.
C20_ErrorPresentIffStderr ==
    \A t \in DOMAIN hist :
        hist[t].lastRun.executed =>
            LET outcome == hist[t].lastRun.outcome
            IN  /\ checkpoints[t].values.command_error # "" <=> ErrorPresent(outcome)
                /\ ErrorPresent(outcome) => FailedExecutionHandled(t)
                /\ ~ErrorPresent(outcome) =>
                      /\ checkpoints[t].next = END
                      /\ ~IsInterrupt(checkpoints[t].interrupt)
                /\ (outcome.kind = "exit" /\ outcome.returncode = 0) =>
                      checkpoints[t].values.command_error = ""

\* C20 witness: a command exited with a code other than 0 and an empty
\* stderr, and the workflow ended without a retry request
C20_Witness ==
    \E t \in DOMAIN hist :
        /\ hist[t].lastRun.executed
        /\ hist[t].lastRun.outcome.kind = "exit"
        /\ hist[t].lastRun.outcome.returncode = 1
        /\ hist[t].lastRun.outcome.stderr = ""
        /\ checkpoints[t].next = END

\* the last invoke ran a command that exited with code 0 and wrote to stderr
ExitZeroWithStderr(t) ==
    /\ hist[t].lastRun.executed
    /\ hist[t].lastRun.outcome.kind = "exit"
    /\ hist[t].lastRun.outcome.returncode = 0
    /\ hist[t].lastRun.outcome.stderr # ""

\* C21 as stated: an execution with exit code 0 and a non-empty stderr leads,
\* with retry_count < 3, to a retry decision request.
C21_ExitZeroStderrRetried ==
    \A t \in DOMAIN hist :
        (ExitZeroWithStderr(t) /\ hist[t].lastRun.retry_count < 3)
            => SuspendedAt(t, "retry")

\* C21 amended: an execution with exit code 0 is a success whatever its
\* stderr: stderr is dropped, command_error is empty, no retry decision is
\* requested and the workflow ends.
C21_ExitZeroStderrIsSuccess ==
    \A t \in DOMAIN hist :
        ExitZeroWithStderr(t) =>
            /\ checkpoints[t].values.command_error = ""
            /\ checkpoints[t].values.command_output = hist[t].lastRun.outcome.stdout
            /\ checkpoints[t].next = END
            /\ ~IsInterrupt(checkpoints[t].interrupt)
            /\ hist[t].ended = "check_result"

\* C21 witness: a first execution exited with code 0 and a non-empty stderr
C21_Witness ==
    \E t \in DOMAIN hist : ExitZeroWithStderr(t) /\ hist[t].lastRun.retry_count = 0

\* in this step the server resumed the workflow of thread t, suspended at the
\* interrupt of this type, with this decision
Decided(t, kind, decision) ==
    /\ lastOp'[t.client] # lastOp[t.client]
    /\ lastOp'[t.client].invoked
    /\ lastOp'[t.client].config = t
    /\ lastOp'[t.client].value = decision
    /\ t \in DOMAIN checkpoints
    /\ SuspendedAt(t, kind)

\* after this step thread t is suspended at an approval request that was
\* sent to its client, or the generator raised in this node
AsksApprovalOrRaisedIn(t, node) ==
    \/ /\ checkpoints'[t].next = "human_approval"
       /\ "command" \in DOMAIN checkpoints'[t].interrupt
       /\ lastOp'[t.client].reply.type = "command_approval"
       /\ lastOp'[t.client].reply.command = checkpoints'[t].values.generated_command
    \/ /\ checkpoints'[t].next = node
       /\ lastOp'[t.client].reply = ErrorMessage("GenerationError")

\* C22, in every step: a session starts with retry_count 0; retry_count
\* changes only by a retry accepted at the retry request, which adds
\* exactly 1; after it a new command is generated and the workflow is
\* suspended at the approval request without the command runner being called.
C22_Step ==
    \A t \in DOMAIN checkpoints' :
        IF t \notin DOMAIN checkpoints
        THEN checkpoints'[t].values.retry_count = 0
        ELSE IF Decided(t, "retry", "retry")
        THEN /\ checkpoints'[t].values.retry_count = checkpoints[t].values.retry_count + 1
             /\ hist'[t].retries = hist[t].retries + 1
             /\ hist'[t].execs = hist[t].execs
             /\ ~hist'[t].lastRun.executed
             /\ AsksApprovalOrRaisedIn(t, "retry_command")
        ELSE checkpoints'[t].values.retry_count = checkpoints[t].values.retry_count

C22_RetryCountStepsByOne == [][C22_Step]_vars

\* C22 witness: a second retry was accepted and the new command waits for
\* approval
C22_Witness ==
    \E c \in Clients :
        /\ lastOp[c].invoked
        /\ lastOp[c].value = "retry"
        /\ lastOp[c].reply.type = "command_approval"
        /\ lastOp[c].reply.retry_count = 2
        /\ hist[lastOp[c].config].execs = 2

\* the suspending node of a thread executed again, as a resume does, on the
\* checkpointed state up to its interrupt
ReExecuted(t) ==
    IF checkpoints[t].next = "human_approval"
    THEN human_approval_node(checkpoints[t].values, NoResume)
    ELSE check_result_node(checkpoints[t].values, NoResume)

C24_Step ==
    \A t \in DOMAIN checkpoints :
        /\ checkpoints'[t].values.user_prompt = checkpoints[t].values.user_prompt
        /\ Decided(t, "approval", "reject") =>
              /\ checkpoints'[t].values.retry_count = checkpoints[t].values.retry_count
              /\ checkpoints'[t].values.command_output = checkpoints[t].values.command_output
              /\ checkpoints'[t].values.command_error = checkpoints[t].values.command_error
              /\ hist'[t].execs = hist[t].execs
              /\ hist'[t].retries = hist[t].retries
              /\ AsksApprovalOrRaisedIn(t, "generate_command")
              /\ lastOp'[t.client].reply.type = "command_approval" =>
                    lastOp'[t.client].reply.retry_count = checkpoints[t].values.retry_count

C24_RejectRegenerates == [][C24_Step]_vars

\* C24 witness: the command proposed after a failed execution and an
\* accepted retry was rejected, and a new one waits for approval
C24_Witness ==
    \E c \in Clients :
        /\ lastOp[c].invoked
        /\ lastOp[c].value = "reject"
        /\ lastOp[c].pre = "approval"
        /\ lastOp[c].reply.type = "command_approval"
        /\ checkpoints[lastOp[c].config].values.retry_count = 1
        /\ checkpoints[lastOp[c].config].values.command_error = "err"

\* C25, in every step: a retry_response declining the retry, which resumes
\* the retry request with cancel, ends the workflow with its state as it was
\* (no generation, no execution, retry_count and command_error kept), the
\* client gets command_output with success FALSE and that error, and the
\* entry is deleted.
C25_Step ==
    \A t \in DOMAIN checkpoints :
        (Decided(t, "retry", "cancel") /\ lastOp'[t.client].type = "retry_response") =>
            /\ checkpoints'[t].next = END
            /\ ~IsInterrupt(checkpoints'[t].interrupt)
            /\ checkpoints'[t].values = checkpoints[t].values
            /\ hist'[t].execs = hist[t].execs
            /\ hist'[t].retries = hist[t].retries
            /\ hist'[t].ended = "check_result"
            /\ lastOp'[t.client].reply =
                  [type |-> "command_output", content |-> "",
                   output |-> checkpoints[t].values.command_output,
                   error |-> checkpoints[t].values.command_error,
                   success |-> FALSE]
            /\ checkpoints[t].values.command_error # ""
            /\ t.client \notin DOMAIN active_sessions'

C25_DecliningRetryEnds == [][C25_Step]_vars

\* C25 witness: the retry offered after the second failed execution was
\* declined
C25_Witness ==
    \E c \in Clients :
        /\ lastOp[c].type = "retry_response"
        /\ lastOp[c].value = "cancel"
        /\ lastOp[c].pre = "retry"
        /\ lastOp[c].reply.type = "command_output"
        /\ checkpoints[lastOp[c].config].values.retry_count = 1
        /\ hist[lastOp[c].config].execs = 2

\* C26: every retry_request sent to a client carries the command that
\* failed, not empty and equal to the session's generated_command, with its
\* error and its output.
C26_RetryRequestCarriesCommand ==
    \A c \in Clients :
        (lastOp[c].invoked /\ lastOp[c].reply.type = "retry_request") =>
            LET values == checkpoints[lastOp[c].config].values
            IN  /\ lastOp[c].reply.command # <<>>
                /\ lastOp[c].reply.command = values.generated_command
                /\ lastOp[c].reply.error = values.command_error
                /\ lastOp[c].reply.output = values.command_output

\* C27, in every step: a request read by the CLI loop runs under a thread_id
\* that no earlier request of the run had.
C27_RequestStep ==
    (cliPc = "request" /\ cliPc' # "quit") => cliConfig' \notin DOMAIN checkpoints

C27_FreshThreadPerRequest == [][C27_RequestStep]_vars

\* C28, in every step: the command runner is called once in a step that
\* resumes an approval request with approve, and not at all in any other
\* step: a later retry, stop or approval decision does not run the command
\* executed before again.
C28_Step ==
    \A t \in DOMAIN hist' :
        LET before == IF t \in DOMAIN hist THEN hist[t].execs ELSE 0
        IN  IF Decided(t, "approval", "approve")
            THEN /\ hist'[t].execs = before + 1
                 /\ hist'[t].lastRun.executed
                 /\ hist'[t].lastRun.command = checkpoints[t].values.generated_command
            ELSE hist'[t].execs = before

C28_OneExecutionPerApprove == [][C28_Step]_vars

\* C28 witness: a retry was accepted after a failed execution, and the
\* command runner had run once
C28_Witness ==
    \E c \in Clients :
        /\ lastOp[c].invoked
        /\ lastOp[c].value = "retry"
        /\ lastOp[c].pre = "retry"
        /\ hist[lastOp[c].config].execs = 1
        /\ hist[lastOp[c].config].retries = 1

\* C29, in every state: the command runner was called at most 4 times for a
\* request, and at most once more than retries were accepted.
C29_ExecutionsBounded ==
    \A t \in DOMAIN hist :
        /\ hist[t].execs <= 4
        /\ hist[t].execs <= hist[t].retries + 1
        /\ hist[t].retries <= 3

\* C29, in every step: a reject at the approval request calls the generator
\* again and leaves retry_count and the numbers of executions and accepted
\* retries as they were, so that rejects can follow each other without end.
C29_RejectStep ==
    (/\ cliPc = "choice"
     /\ checkpoints[cliConfig].next = "human_approval"
     /\ user_response'.choice = "reject") =>
        /\ checkpoints'[cliConfig].values.retry_count
             = checkpoints[cliConfig].values.retry_count
        /\ hist'[cliConfig].execs = hist[cliConfig].execs
        /\ hist'[cliConfig].retries = hist[cliConfig].retries
        /\ \/ cliPc' = "choice" /\ checkpoints'[cliConfig].next = "human_approval"
           \/ cliLog' = "error" /\ checkpoints'[cliConfig].next = "generate_command"

\* C29: whatever the decisions, a session calls the command runner at most 4
\* times, while a reject, which calls the generator, uses up no retry.
C29_AtMostFourExecutions == [][C29_RejectStep]_vars /\ []C29_ExecutionsBounded

\* C29 witness: the command runner was called 4 times for a request
C29_Witness ==
    \E t \in DOMAIN hist :
        /\ hist[t].execs = 4
        /\ hist[t].retries = 3
        /\ checkpoints[t].next = END

\* the thread of a session that no entry points at: replaced, ended, failed
\* at its start or left by a closed connection
Detached(sessions, t) == \A c \in DOMAIN sessions : sessions[c].config # t

\* C30, in every step: a message request of a client whose session is
\* suspended starts a session on a new thread and the client's entry, if the
\* run left one, is that of the new session, waiting at its own interrupt; a
\* decision is applied to the thread of the client's entry only; and a
\* thread no entry points at is never invoked again, keeps its checkpoint,
\* so never reaches the terminal state, and is never pointed at again.
C30_Step ==
    /\ \A c \in Clients :
          LET op == lastOp'[c]
          IN  op # lastOp[c] =>
                /\ (op.type = "message" /\ op.pre \in {"approval", "retry"}) =>
                      /\ op.invoked
                      /\ op.config \notin DOMAIN checkpoints
                      /\ op.config # active_sessions[c].config
                      /\ c \in DOMAIN active_sessions' =>
                            /\ active_sessions'[c].config = op.config
                            /\ active_sessions'[c].waiting_for_response
                            /\ IsInterrupt(checkpoints'[op.config].interrupt)
                /\ (op.type \in {"command_approval", "retry_response"} /\ op.invoked) =>
                      /\ c \in DOMAIN active_sessions
                      /\ op.config = active_sessions[c].config
    /\ \A t \in DOMAIN checkpoints :
          Detached(active_sessions, t) =>
              /\ checkpoints'[t] = checkpoints[t]
              /\ hist'[t] = hist[t]
              /\ Detached(active_sessions', t)
              /\ \A c \in Clients :
                    (lastOp'[c] # lastOp[c] /\ lastOp'[c].invoked) => lastOp'[c].config # t

\* C30: a client has one entry; a message request received while its session
\* is suspended replaces it with a new session, which gets every later
\* decision, and the replaced session stays suspended for ever.
C30_StartReplacesSession == [][C30_Step]_vars

\* C30 witness: a client started a second session while its first waited for
\* approval, and approved the second one's command; the first is still
\* suspended
C30_Witness ==
    \E c \in Clients :
        /\ lastOp[c].type = "command_approval"
        /\ lastOp[c].invoked
        /\ lastOp[c].config = ThreadId(c, 2)
        /\ ThreadId(c, 1) \in DOMAIN checkpoints
        /\ SuspendedAt(ThreadId(c, 1), "approval")
        /\ hist[ThreadId(c, 1)].execs = 0

\* the workflow of thread t has started and has not reached the terminal state
Running(t) == t \in DOMAIN checkpoints /\ t \notin Terminated

\* the workflow of thread t has just ended: its result is the message last
\* sent to its client, and the client has no entry
Finished(t) ==
    /\ t \in Terminated
    /\ t.client \notin DOMAIN active_sessions
    /\ lastOp[t.client].invoked
    /\ lastOp[t.client].config = t
    /\ lastOp[t.client].reply.type = "command_output"

\* C31, in every step: a result message is sent for a thread only by the
\* step that takes it to the terminal state, and a thread at the terminal
\* state stays there, so no session has two results.
C31_ResultStep ==
    /\ \A t \in Terminated : t \in DOMAIN checkpoints' /\ checkpoints'[t].next = END
    /\ \A c \in Clients :
          LET op == lastOp'[c]
          IN  (op # lastOp[c] /\ op.reply.type = "command_output") =>
                /\ op.invoked
                /\ Running(op.config)
                /\ checkpoints'[op.config].next = END
                /\ c \notin DOMAIN active_sessions'

\* C31: when the client stays connected and answers every decision request
\* with a valid decision, rejecting finitely often, and the generator and
\* the command runner return, every started session eventually reaches the
\* terminal state with its result sent and its entry removed, and the result
\* is sent once.
C31_SessionTerminates ==
    /\ [][C31_ResultStep]_vars
    /\ \A c \in Clients, n \in 1..MaxSessions :
          Running(ThreadId(c, n)) ~> Finished(ThreadId(c, n))

\* C31 witness: a session has ended with its result sent and its entry
\* removed after the client accepted a retry
C31_Witness ==
    \E t \in DOMAIN checkpoints :
        /\ Finished(t)
        /\ hist[t].retries >= 1
        /\ hist[t].execs >= 2

====
